---- MODULE Spec2Model ----
(***************************************************************************)
(* SystemMonitor (src/app/core/system_monitor.py): the sampling loops, the *)
(* two update paths (update_data, _update_metrics), the history buffers    *)
(* and the start/stop protocol.                                            *)
(***************************************************************************)
EXTENDS Integers, Sequences, FiniteSets, TLC

\* ------------------------------------------------------------------ bounds
\* history_size, a constructor argument (default 60)
HistorySize == 2
\* the readings of a direct call are indexed 1..MaxVal
MaxVal == 2
\* loop contexts that can be alive at once
MaxThreads == 2
\* clock readings are 0..MaxTime (seconds)
MaxTime == 1
\* cap on frame_count while the clock does not advance
MaxFrames == 2
\* cap on the entries disk_history holds past history_size
MaxOver == 1
\* cap on the length of active_alerts
MaxAlerts == 3
\* cap on the invocations of update_dashboard scheduled at one time
MaxPending == 3

\* the largest number of processes enumerated
MaxProcs == 3

\* the largest limit asked of the process table
MaxLimit == 3

\* Dashboard.history_length (60 in the code)
HistoryLength == 2

\* ------------------------------------------------------------- the state
VARIABLES
    running,            \* self.running
    attrs,              \* the attributes that exist on the object besides
                        \* those __init__ assigns (hasattr)
    cpu_history, ram_history, disk_history,
    net_recv_history, net_sent_history, fps_history,
    prev_net_io,        \* self.prev_net_io   (meaningful when in attrs)
    prev_net_time,      \* self.prev_net_time (meaningful when in attrs)
    frame_count,        \* self.frame_count   (meaningful when in attrs)
    last_frame_time,    \* self.last_frame_time (meaningful when in attrs)
    thread,             \* the loop contexts: kind and position
    last,               \* history variable: the latest step, and its inputs
                        \* when it was a sampling cycle
    sampled,            \* history variable: per stream, the last HistorySize
                        \* samples the cycles produced
    cycles,             \* history variable: completed cycles, saturating
    begun,              \* history variable: cycles begun, saturating at 2
    update_callbacks,   \* self.update_callbacks, the observer registry
    it,                 \* the position of the iterator of a notification pass
    calls,              \* history variable: the observers the pass in progress
                        \* (or the latest pass) has invoked, in order
    stable,             \* history variable: the observers registered without
                        \* interruption since that pass began
    active_alerts,      \* Dashboard.active_alerts
    alert_thresholds,   \* Dashboard.alert_thresholds
    pending,            \* invocations of update_dashboard scheduled with after()
    dash,               \* history variable: the latest dashboard operation
    update_interval,    \* Dashboard.update_interval, in milliseconds
    procs,              \* what psutil.process_iter() enumerates
    top,                \* history variable: the latest call of get_processes
    reader,             \* a caller of the read accessors: what it was handed
    stopper,            \* a caller of stop(): where it is in the call
    display,            \* the lengths of the Dashboard's five display histories
    refresh             \* per context, its position in update_dashboard

vars == <<running, attrs, cpu_history, ram_history, disk_history,
          net_recv_history, net_sent_history, fps_history,
          prev_net_io, prev_net_time, frame_count, last_frame_time,
          thread, last, sampled, cycles, begun,
          update_callbacks, it, calls, stable,
          active_alerts, alert_thresholds, pending, dash,
          update_interval, procs, top, reader,
          stopper, display, refresh>>

\* the observer registry and the notification pass
Registry == <<update_callbacks, it, calls, stable>>

\* the state of the Dashboard
Board == <<active_alerts, alert_thresholds, pending, dash>>

\* what the monitor's start, stop and sampling leave alone
\* the settings, the process table and the callers of the accessors
Tools == <<update_interval, procs, top, reader, stopper, display, refresh>>

\* the clients of the monitor: a caller of stop() and the Dashboard's refreshes
Clients == <<stopper, display, refresh>>

Others == <<Registry, Board, Tools>>

Streams == {"cpu_history", "ram_history", "disk_history",
            "net_recv_history", "net_sent_history", "fps_history"}

RateStreams == {"net_recv_history", "net_sent_history", "fps_history"}

Tids == 1..MaxThreads

Times == 0..MaxTime

\* the provider category that fails in a cycle, if one does. A failing
\* virtual_memory() is left out of the enumeration: like a failing
\* net_io_counters() it raises after the streams before it were appended.
FailModes == {"none", "cpu", "disk", "net"}

RECURSIVE GCD(_, _)
GCD(a, b) == IF b = 0 THEN a ELSE GCD(b, a % b)

Abs(n) == IF n < 0 THEN -n ELSE n

\* a float quotient n / d with d # 0, kept exact: the fraction in lowest
\* terms with a positive denominator, so that equal quotients are equal values
Frac(n, d) ==
    LET g == GCD(Abs(n), Abs(d))
        sgn == IF d < 0 THEN -1 ELSE 1
    IN  [num |-> (sgn * n) \div g, den |-> Abs(d) \div g]

Min(a, b) == IF a < b THEN a ELSE b

\* one cycle's provider readings; the counters are cumulative byte totals
Reading(v) ==
    [cpu        |-> 90 - 5 * v,
     ram        |-> 100 - 10 * v,
     disk       |-> 100 - 5 * v,
     bytes_recv |-> v - 1,
     bytes_sent |-> MaxVal - v,
     fps        |-> 29 + v]

NetIO(rd) == [bytes_recv |-> rd.bytes_recv, bytes_sent |-> rd.bytes_sent]

\* bytes / 1024 / 1024
ToMB(b) == Frac(b, 1024 * 1024)

\* the attributes the unreachable block of get_process_list would assign:
\* the network snapshot, and the frame counters
SnapshotAttrs == {"prev_net_io", "prev_net_time"}

\* the object as a record, so that a handler is a function on it
Self ==
    [cpu_history      |-> cpu_history,
     ram_history      |-> ram_history,
     disk_history     |-> disk_history,
     net_recv_history |-> net_recv_history,
     net_sent_history |-> net_sent_history,
     fps_history      |-> fps_history,
     attrs            |-> attrs,
     prev_net_io      |-> prev_net_io,
     prev_net_time    |-> prev_net_time,
     frame_count      |-> frame_count,
     last_frame_time  |-> last_frame_time,
     sampled          |-> sampled,
     raised           |-> FALSE]

Install(m) ==
    /\ cpu_history' = m.cpu_history
    /\ ram_history' = m.ram_history
    /\ disk_history' = m.disk_history
    /\ net_recv_history' = m.net_recv_history
    /\ net_sent_history' = m.net_sent_history
    /\ fps_history' = m.fps_history
    /\ attrs' = m.attrs
    /\ prev_net_io' = m.prev_net_io
    /\ prev_net_time' = m.prev_net_time
    /\ frame_count' = m.frame_count
    /\ last_frame_time' = m.last_frame_time
    /\ sampled' = m.sampled

HistoryOf(s) == Self[s]

\* ------------------------------------------------------ history buffers
\* h[-n:]
LastN(h, n) ==
    IF n = 0 \/ Len(h) <= n THEN h ELSE SubSeq(h, Len(h) - n + 1, Len(h))

\* the mutant of Last: h[0]
First(h) == h[1]

\* h[-1]
Last(h) == h[Len(h)]

\* h.append(x); if len(h) > history_size: h = h[-history_size:]
AppendSlice(h, x) ==
    LET a == Append(h, x)
    IN  IF Len(a) > HistorySize THEN LastN(a, HistorySize) ELSE a

\* h.append(x); if len(h) > history_size: h.pop(0)
AppendPop(h, x) ==
    LET a == Append(h, x)
    IN  IF Len(a) > HistorySize THEN Tail(a) ELSE a

\* except-branch of update_data: self.disk_history.append(0)
AppendSentinel(h) == Append(h, 0)

\* the window of the last HistorySize samples of a stream
Window(s, x) == LastN(Append(s, x), HistorySize)

Sampled(m, s, x) == [m.sampled EXCEPT ![s] = Window(@, x)]

Raise(m) == [m EXCEPT !.raised = TRUE]

\* ---------------------------------------------------------- update_data
\* CPU: cpu_percent(), append, trim by slice
DataCpu(m, rd, fail) ==
    IF fail = "cpu" THEN Raise(m)
    ELSE [m EXCEPT !.cpu_history = AppendSlice(@, rd.cpu),
                   !.sampled = Sampled(m, "cpu_history", rd.cpu)]

\* RAM: virtual_memory().percent, append, trim by slice
DataRam(m, rd, fail) ==
    IF fail = "ram" THEN Raise(m)
    ELSE [m EXCEPT !.ram_history = AppendSlice(@, rd.ram),
                   !.sampled = Sampled(m, "ram_history", rd.ram)]

\* Disk: inside try; the except branch appends 0 and does not trim
DataDisk(m, rd, fail) ==
    IF fail = "disk"
    THEN [m EXCEPT !.disk_history = AppendSentinel(@),
                   !.sampled = Sampled(m, "disk_history", 0)]
    ELSE [m EXCEPT !.disk_history = AppendSlice(@, rd.disk),
                   !.sampled = Sampled(m, "disk_history", rd.disk)]

\* the mutant of DataNet: the sent history is appended to and never trimmed
DataNetSentUntrimmed(m, rd, fail) ==
    IF fail = "net" THEN Raise(m)
    ELSE LET r == ToMB(rd.bytes_recv)
             s == ToMB(rd.bytes_sent)
         IN  [m EXCEPT !.net_recv_history = AppendSlice(@, r),
                       !.net_sent_history = Append(@, s),
                       !.sampled = [Sampled(m, "net_recv_history", r)
                                      EXCEPT !["net_sent_history"] = Window(@, s)]]

\* Net: the cumulative totals in MB are appended, then each history trimmed
DataNet(m, rd, fail) ==
    IF fail = "net" THEN Raise(m)
    ELSE LET r == ToMB(rd.bytes_recv)
             s == ToMB(rd.bytes_sent)
         IN  [m EXCEPT !.net_recv_history = AppendSlice(@, r),
                       !.net_sent_history = AppendSlice(@, s),
                       !.sampled = [Sampled(m, "net_recv_history", r)
                                      EXCEPT !["net_sent_history"] = Window(@, s)]]

\* FPS: np.random.randint(30, 120), append, trim by slice
DataFps(m, rd) ==
    [m EXCEPT !.fps_history = AppendSlice(@, rd.fps),
              !.sampled = Sampled(m, "fps_history", rd.fps)]

\* update_data(): the five sections in order; an exception outside the disk
\* try block leaves the function at once
UpdateData(m, rd, fail) ==
    LET m1 == DataCpu(m, rd, fail)
        m2 == IF m1.raised THEN m1 ELSE DataRam(m1, rd, fail)
        m3 == IF m2.raised THEN m2 ELSE DataDisk(m2, rd, fail)
        m4 == IF m3.raised THEN m3 ELSE DataNet(m3, rd, fail)
    IN  IF m4.raised THEN m4 ELSE DataFps(m4, rd)

\* ------------------------------------------------------ _update_metrics
\* CPU: append, pop(0) past capacity
MetricsCpu(m, rd, fail) ==
    IF fail = "cpu" THEN Raise(m)
    ELSE [m EXCEPT !.cpu_history = AppendPop(@, rd.cpu),
                   !.sampled = Sampled(m, "cpu_history", rd.cpu)]

MetricsRam(m, rd, fail) ==
    IF fail = "ram" THEN Raise(m)
    ELSE [m EXCEPT !.ram_history = AppendPop(@, rd.ram),
                   !.sampled = Sampled(m, "ram_history", rd.ram)]

\* Disk: disk_usage('/') is not guarded here
MetricsDisk(m, rd, fail) ==
    IF fail = "disk" THEN Raise(m)
    ELSE [m EXCEPT !.disk_history = AppendPop(@, rd.disk),
                   !.sampled = Sampled(m, "disk_history", rd.disk)]

\* (current - previous) / time_diff
Rate(curr, prev, time_diff) == Frac(curr - prev, time_diff)

\* the mutant of Advanced: any change of the clock counts
AdvancedOrBack(time_diff) == time_diff # 0

\* if time_diff > 0:
Advanced(time_diff) == time_diff > 0

\* Red: reads self.prev_net_time (AttributeError when it was never assigned),
\* appends both rates when time_diff > 0, then stores the snapshot
NetRateBlock(m, io, t) ==
    IF "prev_net_time" \notin m.attrs THEN Raise(m)
    ELSE
      LET time_diff == t - m.prev_net_time
          m1 == IF Advanced(time_diff)
                THEN IF "prev_net_io" \notin m.attrs THEN Raise(m)
                     ELSE LET r == Rate(io.bytes_recv, m.prev_net_io.bytes_recv, time_diff)
                              s == Rate(io.bytes_sent, m.prev_net_io.bytes_sent, time_diff)
                          IN  [m EXCEPT
                                 !.net_recv_history = AppendPop(@, r),
                                 !.net_sent_history = AppendPop(@, s),
                                 !.sampled = [Sampled(m, "net_recv_history", r)
                                                EXCEPT !["net_sent_history"] = Window(@, s)]]
                ELSE m
      IN  IF m1.raised THEN m1
          ELSE [m1 EXCEPT !.prev_net_io = io,
                          !.prev_net_time = t,
                          !.attrs = @ \cup {"prev_net_io", "prev_net_time"}]

MetricsNet(m, rd, fail, t) ==
    IF fail = "net" THEN Raise(m) ELSE NetRateBlock(m, NetIO(rd), t)

\* FPS: frame_count += 1; once a second has passed, emit frame_count /
\* time_diff and reset the counter and the timer
FrameRateBlock(m, t) ==
    IF "frame_count" \notin m.attrs THEN Raise(m)
    ELSE
      LET m1 == [m EXCEPT !.frame_count = @ + 1]
      IN  IF "last_frame_time" \notin m.attrs THEN Raise(m1)
          ELSE
            LET time_diff == t - m1.last_frame_time
                fps == Frac(m1.frame_count, time_diff)
            IN  IF time_diff >= 1
                THEN [m1 EXCEPT !.fps_history = AppendPop(@, fps),
                                !.sampled = Sampled(m1, "fps_history", fps),
                                !.frame_count = 0,
                                !.last_frame_time = t]
                ELSE m1

\* _update_metrics(): the sections in order; any exception leaves it at once
UpdateMetrics(m, rd, fail, t) ==
    LET m1 == MetricsCpu(m, rd, fail)
        m2 == IF m1.raised THEN m1 ELSE MetricsRam(m1, rd, fail)
        m3 == IF m2.raised THEN m2 ELSE MetricsDisk(m2, rd, fail)
        m4 == IF m3.raised THEN m3 ELSE MetricsNet(m3, rd, fail, t)
    IN  IF m4.raised THEN m4 ELSE FrameRateBlock(m4, t)

\* ------------------------------------------------------------- __init__
NoIO == [bytes_recv |-> 0, bytes_sent |-> 0]

\* the record of a step that is no sampling cycle
Step(name) ==
    [op |-> name, fail |-> "none", raised |-> FALSE,
     v |-> 0, t |-> 0, clock |-> "unread"]

\* the readings the providers give the loops
LoopVals == {1}

NoThread == [kind |-> "none", pc |-> "idle"]

\* Dashboard.__init__: self.alert_thresholds
CpuThreshold == 80

RamThreshold == 80

DiskThreshold == 90

TempThreshold == 80

Thresholds ==
    [cpu |-> CpuThreshold, ram |-> RamThreshold,
     disk |-> DiskThreshold, temp |-> TempThreshold]

\* the record of a Dashboard on which nothing has run
NoDash == [op |-> "init"]

\* Dashboard.__init__: self.update_interval = 1000
UpdateInterval == 1000

\* no call of get_processes yet
NoTop == [op |-> "init"]

\* no accessor called yet
NoReader == [op |-> "init"]

\* no call of stop() in progress
NoStop == [pc |-> "idle", how |-> "none"]

\* the Dashboard's five display histories
DisplayStreams == {"cpu", "ram", "disk", "net", "fps"}

\* the contexts update_dashboard runs in: the UI timer and the monitor thread
Contexts == {"timer", "callback"}

\* Dashboard.__init__: each display history is [0] * self.history_length;
\* no update_dashboard under way
InitClients ==
    /\ stopper = NoStop
    /\ display = [s \in DisplayStreams |-> HistoryLength]
    /\ refresh = [c \in Contexts |-> 0]

\* Dashboard.__init__ assigns update_interval; nothing enumerated, nothing
\* handed out
InitTools ==
    /\ update_interval = UpdateInterval
    /\ procs = <<>>
    /\ top = NoTop
    /\ reader = NoReader
    /\ InitClients

\* __init__: running False, the six histories empty; it assigns none of
\* prev_net_io, prev_net_time, frame_count, last_frame_time, monitor_thread
Init ==
    /\ running = FALSE
    /\ attrs = {}
    /\ cpu_history = <<>>
    /\ ram_history = <<>>
    /\ disk_history = <<>>
    /\ net_recv_history = <<>>
    /\ net_sent_history = <<>>
    /\ fps_history = <<>>
    /\ prev_net_io = NoIO
    /\ prev_net_time = 0
    /\ frame_count = 0
    /\ last_frame_time = 0
    /\ thread = [t \in Tids |-> NoThread]
    /\ last = Step("init")
    /\ sampled = [s \in Streams |-> <<>>]
    /\ cycles = 0
    /\ begun = 0
    /\ update_callbacks = <<>>
    /\ it = 0
    /\ calls = <<>>
    /\ stable = {}
    /\ active_alerts = <<>>
    /\ alert_thresholds = Thresholds
    /\ pending = 0
    /\ dash = NoDash
    /\ InitTools

\* ---------------------------------------------------------- start / stop
Alive(t) == thread[t].pc \in {"check", "update", "notify", "sleep"}

LiveLoops == {t \in Tids : Alive(t)}

FreeTids == Tids \ LiveLoops

\* the slot a new loop context takes
NewTid == CHOOSE t \in FreeTids : \A u \in FreeTids : t <= u

Monitor == <<cpu_history, ram_history, disk_history, net_recv_history,
             net_sent_history, fps_history, prev_net_io, prev_net_time,
             frame_count, last_frame_time, sampled, cycles, begun>>

\* the mutant of Start: the running flag is not tested
StartUnguarded ==
    /\ last' = Step("start")
    /\ FreeTids # {}
    /\ running' = TRUE
    /\ thread' = [thread EXCEPT ![NewTid] = [kind |-> "ml", pc |-> "check"]]
    /\ attrs' = attrs \cup {"monitor_thread"}
    /\ UNCHANGED Monitor
    /\ UNCHANGED Others

\* start(): when not running, set the flag and start a thread on
\* _monitor_loop; otherwise nothing
Start ==
    /\ last' = Step("start")
    /\ IF ~running
       THEN /\ FreeTids # {}
            /\ running' = TRUE
            /\ thread' = [thread EXCEPT ![NewTid] = [kind |-> "ml", pc |-> "check"]]
            /\ attrs' = attrs \cup {"monitor_thread"}
       ELSE UNCHANGED <<running, thread, attrs>>
    /\ UNCHANGED Monitor
    /\ UNCHANGED Others

\* start_monitoring(), up to the loop: return when running, else set the
\* flag; the loop then runs in the calling context
StartMonitoring ==
    /\ last' = Step("start_monitoring")
    /\ IF ~running
       THEN /\ FreeTids # {}
            /\ running' = TRUE
            /\ thread' = [thread EXCEPT ![NewTid] = [kind |-> "sm", pc |-> "check"]]
       ELSE UNCHANGED <<running, thread>>
    /\ UNCHANGED <<attrs, Monitor>>
    /\ UNCHANGED Others

\* the mutant of Stop: the flag is cleared only when there is a thread to join
StopWhenThread ==
    /\ last' = Step("stop")
    /\ running' = IF "monitor_thread" \in attrs THEN FALSE ELSE running
    /\ UNCHANGED <<thread, attrs, Monitor>>
    /\ UNCHANGED Others

\* stop() (the second definition, which replaces the first): clear the flag,
\* then join monitor_thread for at most 1.0 s when the attribute exists. The
\* join changes no state: it returns with the thread exited or still alive.
Stop ==
    /\ last' = Step("stop")
    /\ running' = FALSE
    /\ UNCHANGED <<thread, attrs, Monitor>>
    /\ UNCHANGED Others

\* ------------------------------------------------------------ the loops
\* the mutant of LoopCheck: while True
LoopCheckForever(t) ==
    /\ thread[t].pc = "check"
    /\ thread' = [thread EXCEPT ![t].pc = "update"]
    /\ last' = Step("step")
    /\ UNCHANGED <<running, attrs, Monitor>>
    /\ UNCHANGED Others

\* while self.running: of start_monitoring and of _monitor_loop; a loop that
\* ends gives its context up
LoopCheck(t) ==
    /\ thread[t].pc = "check"
    /\ thread' = [thread EXCEPT ![t] =
                     IF running THEN [@ EXCEPT !.pc = "update"] ELSE NoThread]
    /\ last' = Step("step")
    /\ UNCHANGED <<running, attrs, Monitor>>
    /\ UNCHANGED Others

Completed(m) == IF m.raised THEN cycles ELSE Min(cycles + 1, HistorySize + 1)

\* start_monitoring: self.update_data(); an exception leaves the loop and
\* ends the context, the flag untouched
UpdateDataStep(t) ==
    /\ thread[t].pc = "update"
    /\ thread[t].kind = "sm"
    /\ \E v \in LoopVals, fail \in FailModes :
          LET m == UpdateData(Self, Reading(v), fail)
          IN  /\ Len(m.disk_history) <= HistorySize + MaxOver
              /\ Install(m)
              /\ last' = [Step("update_data") EXCEPT
                             !.fail = fail, !.raised = m.raised]
              /\ cycles' = Completed(m)
              /\ thread' = [thread EXCEPT ![t].pc =
                               IF m.raised THEN "crashed" ELSE "notify"]
    /\ begun' = Min(begun + 1, 2)
    /\ UNCHANGED running
    /\ UNCHANGED Others

\* the record of an _update_metrics cycle: when it found a snapshot, the
\* reading and the time it took, and how that time lies to the snapshot's
MetricsCycle(v, fail, t1, m) ==
    IF "prev_net_time" \in attrs /\ fail \notin {"cpu", "ram", "disk", "net"}
    THEN [Step("_update_metrics") EXCEPT
             !.fail = fail, !.raised = m.raised, !.v = v, !.t = t1,
             !.clock = IF t1 > prev_net_time THEN "advanced"
                       ELSE IF t1 = prev_net_time THEN "same" ELSE "back"]
    ELSE [Step("_update_metrics") EXCEPT !.fail = fail, !.raised = m.raised]

\* _monitor_loop: try: self._update_metrics() ...; except Exception: print,
\* and back to the while test without sleeping
UpdateMetricsStep(t) ==
    /\ thread[t].pc = "update"
    /\ thread[t].kind = "ml"
    /\ "frame_count" \in attrs => frame_count < MaxFrames
    /\ \E v \in LoopVals, fail \in FailModes, t1 \in Times :
          LET m == UpdateMetrics(Self, Reading(v), fail, t1)
          IN  /\ Install(m)
              /\ last' = MetricsCycle(v, fail, t1, m)
              /\ cycles' = Completed(m)
              /\ thread' = [thread EXCEPT ![t].pc =
                               IF m.raised THEN "check" ELSE "notify"]
    /\ begun' = Min(begun + 1, 2)
    /\ UNCHANGED running
    /\ UNCHANGED Others

\* the callbacks of the cycle
LoopNotify(t) ==
    /\ thread[t].pc = "notify"
    /\ thread' = [thread EXCEPT ![t].pc = "sleep"]
    /\ last' = Step("step")
    /\ UNCHANGED <<running, attrs, Monitor>>
    /\ UNCHANGED Others

\* time.sleep(self.update_interval)
LoopSleep(t) ==
    /\ thread[t].pc = "sleep"
    /\ thread' = [thread EXCEPT ![t].pc = "check"]
    /\ last' = Step("step")
    /\ UNCHANGED <<running, attrs, Monitor>>
    /\ UNCHANGED Others

LoopStep(t) ==
    \/ LoopCheck(t)
    \/ UpdateDataStep(t)
    \/ UpdateMetricsStep(t)
    \/ LoopNotify(t)
    \/ LoopSleep(t)

Next ==
    \/ Start
    \/ StartMonitoring
    \/ Stop
    \/ \E t \in Tids : LoopStep(t)

Spec == Init /\ [][Next]_vars

\* ------------------------------------------- _update_metrics on its own
\* _update_metrics as a function of the object it is called on: an object
\* whose network snapshot has been assigned, holding any reading and any
\* clock value. (No code of the class assigns it before the first call: the
\* assignments follow the return of get_process_list.)
InitRate ==
    /\ running = FALSE
    /\ attrs = SnapshotAttrs
    /\ cpu_history = <<>>
    /\ ram_history = <<>>
    /\ disk_history = <<>>
    /\ net_recv_history = <<>>
    /\ net_sent_history = <<>>
    /\ fps_history = <<>>
    /\ \E v \in 1..MaxVal : prev_net_io = NetIO(Reading(v))
    /\ prev_net_time \in Times
    /\ frame_count = 0
    /\ last_frame_time = prev_net_time
    /\ thread = [t \in Tids |-> NoThread]
    /\ last = Step("init")
    /\ sampled = [s \in Streams |-> <<>>]
    /\ cycles = 0
    /\ begun = 0
    /\ update_callbacks = <<>>
    /\ it = 0
    /\ calls = <<>>
    /\ stable = {}
    /\ active_alerts = <<>>
    /\ alert_thresholds = Thresholds
    /\ pending = 0
    /\ dash = NoDash
    /\ InitTools

\* one call of _update_metrics() in the caller's context, the providers
\* answering
SampleOnce ==
    /\ "frame_count" \in attrs => frame_count < MaxFrames
    /\ \E v \in 1..MaxVal, fail \in {"none"}, t1 \in Times :
          LET m == UpdateMetrics(Self, Reading(v), fail, t1)
          IN  /\ Install(m)
              /\ last' = MetricsCycle(v, fail, t1, m)
              /\ cycles' = Completed(m)
    /\ begun' = Min(begun + 1, 2)
    /\ UNCHANGED <<running, thread>>
    /\ UNCHANGED Others

NextRate == SampleOnce

SpecRate == InitRate /\ [][NextRate]_vars

\* the loops are threads the scheduler keeps running
FairSpec == Spec /\ \A t \in Tids : WF_vars(LoopStep(t))

\* ------------------------------------------------- the observer registry
\* the objects handed to the registry: a is an observer that returns, b one
\* that raises on every invocation, n an object that is not callable
Objects == {"a", "b", "n"}

\* callable(callback)
Callable(c) == c # "n"

\* the observers of a notification pass are callable
Observers == {c \in Objects : Callable(c)}

\* calling the object ends in an exception (TypeError for one not callable)
Raises(c) == c = "b" \/ ~Callable(c)

Range(q) == {q[i] : i \in 1..Len(q)}

\* list.remove(c): the first occurrence goes
Remove(q, c) ==
    LET i == CHOOSE k \in 1..Len(q) :
                 q[k] = c /\ \A j \in 1..(k - 1) : q[j] # c
    IN  SubSeq(q, 1, i - 1) \o SubSeq(q, i + 1, Len(q))

\* the record of a registry call: the object, and whether the registry held it
RegistryCall(name, c) ==
    [op |-> name, cb |-> c, had |-> c \in Range(update_callbacks)]

\* the mutant of RegisterUpdateCallback: no membership test
RegisterUnchecked(c) ==
    /\ last' = RegistryCall("register", c)
    /\ update_callbacks' =
           IF Callable(c) THEN Append(update_callbacks, c) ELSE update_callbacks
    /\ UNCHANGED <<Tools, running, attrs, thread, Monitor, it, calls, stable,
                   Board>>

\* register_update_callback(callback)
RegisterUpdateCallback(c) ==
    /\ last' = RegistryCall("register", c)
    /\ update_callbacks' =
           IF Callable(c) /\ c \notin Range(update_callbacks)
           THEN Append(update_callbacks, c)
           ELSE update_callbacks
    /\ UNCHANGED <<Tools, running, attrs, thread, Monitor, it, calls, stable,
                   Board>>

\* set_update_callback(callback): the same without the callable() test
SetUpdateCallback(c) ==
    /\ last' = RegistryCall("set_callback", c)
    /\ update_callbacks' =
           IF c \notin Range(update_callbacks)
           THEN Append(update_callbacks, c)
           ELSE update_callbacks
    /\ UNCHANGED <<Tools, running, attrs, thread, Monitor, it, calls, stable,
                   Board>>

\* unregister_update_callback(callback)
UnregisterUpdateCallback(c) ==
    /\ last' = RegistryCall("unregister", c)
    /\ update_callbacks' =
           IF c \in Range(update_callbacks)
           THEN Remove(update_callbacks, c)
           ELSE update_callbacks
    /\ stable' = stable \ {c}
    /\ UNCHANGED <<Tools, running, attrs, thread, Monitor, it, calls, Board>>

\* start_monitoring, one cycle: self.update_data() returns, then the for
\* statement takes an iterator on self.update_callbacks itself
BeginPass(t) ==
    /\ thread[t].pc = "update"
    /\ thread[t].kind = "sm"
    /\ \E v \in LoopVals :
          LET m == UpdateData(Self, Reading(v), "none")
          IN  /\ Install(m)
              /\ cycles' = Completed(m)
    /\ begun' = Min(begun + 1, 2)
    /\ last' = Step("update_data")
    /\ thread' = [thread EXCEPT ![t].pc = "notify"]
    /\ it' = 0
    /\ calls' = <<>>
    /\ stable' = Range(update_callbacks)
    /\ UNCHANGED <<Tools, running, update_callbacks, Board>>

\* the mutant of NotifyStep: the call is not inside try/except, an observer
\* that raises ends the loop
NotifyStepUnguarded(t) ==
    /\ thread[t].pc = "notify"
    /\ thread[t].kind = "sm"
    /\ IF it < Len(update_callbacks)
       THEN LET c == update_callbacks[it + 1]
            IN  /\ calls' = Append(calls, c)
                /\ it' = it + 1
                /\ last' = [op |-> "callback", cb |-> c, raised |-> Raises(c)]
                /\ thread' = [thread EXCEPT ![t].pc =
                                 IF Raises(c) THEN "crashed" ELSE "notify"]
       ELSE /\ thread' = [thread EXCEPT ![t].pc = "sleep"]
            /\ last' = Step("pass_end")
            /\ UNCHANGED <<it, calls>>
    /\ UNCHANGED <<Tools, running, attrs, Monitor, update_callbacks, stable, Board>>

\* for callback in self.update_callbacks: try: callback() except Exception:
\* print. One step of the list iterator: the entry at its position, if the
\* list as it is now has one, else the end of the pass.
NotifyStep(t) ==
    /\ thread[t].pc = "notify"
    /\ thread[t].kind = "sm"
    /\ IF it < Len(update_callbacks)
       THEN LET c == update_callbacks[it + 1]
            IN  /\ calls' = Append(calls, c)
                /\ it' = it + 1
                /\ last' = [op |-> "callback", cb |-> c, raised |-> Raises(c)]
                /\ UNCHANGED thread
       ELSE /\ thread' = [thread EXCEPT ![t].pc = "sleep"]
            /\ last' = Step("pass_end")
            /\ UNCHANGED <<it, calls>>
    /\ UNCHANGED <<Tools, running, attrs, Monitor, update_callbacks, stable, Board>>

\* the registry calls on their own, in any sequence, with any object
NextReg ==
    \/ \E c \in Objects : RegisterUpdateCallback(c)
    \/ \E c \in Objects : SetUpdateCallback(c)
    \/ \E c \in Objects : UnregisterUpdateCallback(c)

SpecReg == Init /\ [][NextReg]_vars

\* a monitor on which start_monitoring() has begun its loop
InitNotify ==
    /\ running = TRUE
    /\ attrs = {}
    /\ cpu_history = <<>>
    /\ ram_history = <<>>
    /\ disk_history = <<>>
    /\ net_recv_history = <<>>
    /\ net_sent_history = <<>>
    /\ fps_history = <<>>
    /\ prev_net_io = NoIO
    /\ prev_net_time = 0
    /\ frame_count = 0
    /\ last_frame_time = 0
    /\ thread = [t \in Tids |->
                    IF t = 1 THEN [kind |-> "sm", pc |-> "check"] ELSE NoThread]
    /\ last = Step("start_monitoring")
    /\ sampled = [s \in Streams |-> <<>>]
    /\ cycles = 0
    /\ begun = 0
    /\ update_callbacks = <<>>
    /\ it = 0
    /\ calls = <<>>
    /\ stable = {}
    /\ active_alerts = <<>>
    /\ alert_thresholds = Thresholds
    /\ pending = 0
    /\ dash = NoDash
    /\ InitTools

NextNotify ==
    \/ \E c \in Observers : RegisterUpdateCallback(c)
    \/ \E c \in Observers : SetUpdateCallback(c)
    \/ \E c \in Observers : UnregisterUpdateCallback(c)
    \/ \E t \in Tids : LoopCheck(t)
    \/ \E t \in Tids : BeginPass(t)
    \/ \E t \in Tids : NotifyStep(t)
    \/ \E t \in Tids : LoopSleep(t)

SpecNotify == InitNotify /\ [][NextNotify]_vars

\* --------------------------------------------------------- the Dashboard
Metrics == {"cpu", "ram", "disk", "temp"}

\* the values handed to check_alerts for a metric: below, at and above its
\* threshold
Levels(threshold) == {threshold - 1, threshold, threshold + 1}

\* the mutant of Exceeds: at or above
ExceedsOrEqual(value, threshold) == value >= threshold

\* if cpu_percent > self.alert_thresholds['cpu']:
Exceeds(value, threshold) == value > threshold

\* f"{current_time} - ... Alerta: CPU al {cpu_percent:.1f}%": the text is
\* determined by the clock's second, the metric and the value
AlertMsg(time, metric, value) ==
    [time |-> time, metric |-> metric, value |-> value]

\* the mutant of CheckMetric: the new message is put first
CheckMetricNewestFirst(alerts, th, time, metric, value) ==
    IF Exceeds(value, th[metric])
    THEN IF AlertMsg(time, metric, value) \notin Range(alerts)
         THEN <<AlertMsg(time, metric, value)>> \o alerts
         ELSE alerts
    ELSE alerts

\* one of the four blocks of check_alerts
CheckMetric(alerts, th, time, metric, value) ==
    IF Exceeds(value, th[metric])
    THEN IF AlertMsg(time, metric, value) \notin Range(alerts)
         THEN Append(alerts, AlertMsg(time, metric, value))
         ELSE alerts
    ELSE alerts

\* check_alerts(cpu_percent, ram_percent, disk_percent, cpu_temp)
CheckAlertsList(alerts, th, time, cpu, ram, disk, temp) ==
    LET a1 == CheckMetric(alerts, th, time, "cpu", cpu)
        a2 == CheckMetric(a1, th, time, "ram", ram)
        a3 == CheckMetric(a2, th, time, "disk", disk)
    IN  CheckMetric(a3, th, time, "temp", temp)

\* a call of check_alerts with any four values at any second
CheckAlerts ==
    /\ \E time \in Times,
          cpu \in Levels(alert_thresholds.cpu),
          ram \in Levels(alert_thresholds.ram),
          disk \in Levels(alert_thresholds.disk),
          temp \in Levels(alert_thresholds.temp) :
          LET a == CheckAlertsList(active_alerts, alert_thresholds,
                                   time, cpu, ram, disk, temp)
          IN  /\ Len(a) <= MaxAlerts
              /\ active_alerts' = a
              /\ dash' = [op |-> "check_alerts", time |-> time,
                          tie |-> \/ cpu = alert_thresholds.cpu
                                  \/ ram = alert_thresholds.ram
                                  \/ disk = alert_thresholds.disk
                                  \/ temp = alert_thresholds.temp]
    /\ last' = Step("check_alerts")
    /\ UNCHANGED <<Tools, running, attrs, thread, Monitor, Registry,
                   alert_thresholds, pending>>

\* the mutant of ClearAlerts: the listbox is emptied, the list is not
ClearListboxOnly ==
    /\ active_alerts' = active_alerts
    /\ dash' = [op |-> "clear_alerts", had |-> Len(active_alerts)]
    /\ last' = Step("clear_alerts")
    /\ UNCHANGED <<Tools, running, attrs, thread, Monitor, Registry,
                   alert_thresholds, pending>>

\* clear_alerts(): self.alerts_listbox.delete(0, tk.END);
\* self.active_alerts = []
ClearAlerts ==
    /\ active_alerts' = <<>>
    /\ dash' = [op |-> "clear_alerts", had |-> Len(active_alerts)]
    /\ last' = Step("clear_alerts")
    /\ UNCHANGED <<Tools, running, attrs, thread, Monitor, Registry,
                   alert_thresholds, pending>>

NextAlerts == CheckAlerts \/ ClearAlerts

SpecAlerts == Init /\ [][NextAlerts]_vars

\* the methods of SystemMonitor that update_dashboard and the functions it
\* calls ask for, as far as the class defines them
MonitorMethods ==
    {"get_cpu_percent", "get_cpu_temp", "get_ram_percent", "get_ram_usage",
     "get_disk_percent", "get_disk_io", "get_network_speed", "get_fps"}

\* get_cpu_percent(), get_ram_percent(), get_disk_percent()
GetCpuPercent == IF cpu_history = <<>> THEN 0 ELSE Last(cpu_history)

GetRamPercent == IF ram_history = <<>> THEN 0 ELSE Last(ram_history)

GetDiskPercent == IF disk_history = <<>> THEN 0 ELSE Last(disk_history)

\* get_fps()
GetFps == IF fps_history = <<>> THEN 0 ELSE Last(fps_history)

\* get_network_usage(): the pair (recv, sent)
GetNetworkUsage ==
    <<IF net_recv_history = <<>> THEN 0 ELSE Last(net_recv_history),
      IF net_sent_history = <<>> THEN 0 ELSE Last(net_sent_history)>>

\* get_cpu_temp(): np.random.randint(40, 80), the ends of its range
TempReadings == {40, 79}

\* update_process_table(): self.system_monitor.get_top_processes(10) is an
\* AttributeError when the monitor has no such method
ProcessTableRaises == "get_top_processes" \notin MonitorMethods

\* update_dashboard(), as far as the alerts go: the readings, the labels, the
\* display histories and update_charts(), then update_process_table(), then
\* check_alerts(); an exception on the way leaves the try block
UpdateDashboardAlerts(time, temp) ==
    IF ProcessTableRaises THEN active_alerts
    ELSE CheckAlertsList(active_alerts, alert_thresholds, time,
                         GetCpuPercent, GetRamPercent, GetDiskPercent, temp)

\* update_dashboard() in the context ctx; both the end of the try block and
\* the except branch schedule one more invocation with after()
UpdateDashboard(ctx) ==
    /\ \E time \in Times, temp \in TempReadings :
          LET a == UpdateDashboardAlerts(time, temp)
          IN  /\ Len(a) <= MaxAlerts
              /\ active_alerts' = a
              /\ dash' = [op |-> "update_dashboard", time |-> time,
                          ctx |-> ctx, raised |-> ProcessTableRaises]
    /\ last' = Step("update_dashboard")
    /\ UNCHANGED <<Tools, running, attrs, Monitor, it, calls, stable,
                   update_callbacks, alert_thresholds>>

\* Dashboard.start_monitoring(): registers update_dashboard with the monitor,
\* starts a thread on SystemMonitor.start_monitoring and schedules the first
\* update_dashboard on the UI timer
DashStartMonitoring ==
    /\ dash.op = "init"
    /\ ~running
    /\ FreeTids # {}
    /\ update_callbacks' =
           IF "update_dashboard" \notin Range(update_callbacks)
           THEN Append(update_callbacks, "update_dashboard")
           ELSE update_callbacks
    /\ running' = TRUE
    /\ thread' = [thread EXCEPT ![NewTid] = [kind |-> "sm", pc |-> "check"]]
    /\ pending' = 1
    /\ dash' = [op |-> "start_monitoring"]
    /\ last' = Step("start_monitoring")
    /\ UNCHANGED <<Tools, attrs, Monitor, it, calls, stable,
                   active_alerts, alert_thresholds>>

\* the UI timer fires one scheduled update_dashboard
UpdateDashboardTimer ==
    /\ pending > 0
    /\ UpdateDashboard("timer")
    /\ pending' = (pending - 1) + 1
    /\ UNCHANGED thread

\* the loop of start_monitoring calls its callback, update_dashboard, in the
\* monitor thread
UpdateDashboardCallback(t) ==
    /\ thread[t].pc = "notify"
    /\ thread[t].kind = "sm"
    /\ update_callbacks = <<"update_dashboard">>
    /\ pending < MaxPending
    /\ UpdateDashboard("callback")
    /\ pending' = pending + 1
    /\ thread' = [thread EXCEPT ![t].pc = "sleep"]

NextDash ==
    \/ DashStartMonitoring
    \/ UpdateDashboardTimer
    \/ Stop
    \/ \E t \in Tids : LoopCheck(t)
    \/ \E t \in Tids : UpdateDataStep(t)
    \/ \E t \in Tids : UpdateDashboardCallback(t)
    \/ \E t \in Tids : LoopSleep(t)

SpecDash == Init /\ [][NextDash]_vars

\* ------------------------------------------------------------ settings
\* what the entries of the settings window may hold when "Guardar" is pressed
IntervalTexts == {"abc", "0", "99", "100", "500"}

ThresholdTexts == {"abc", "-1", "0", "100", "101"}

\* int(text) for the texts above; any other text is a ValueError
IntOf ==
    ("-1" :> (0 - 1)) @@ ("0" :> 0) @@ ("99" :> 99) @@ ("100" :> 100) @@
    ("101" :> 101) @@ ("500" :> 500)

IsInt(text) == text \in DOMAIN IntOf

\* if new_interval >= 100: self.update_interval = new_interval
NewInterval(old, n) == IF n >= 100 THEN n ELSE old

\* if 0 <= new_cpu <= 100: self.alert_thresholds['cpu'] = new_cpu
NewThreshold(old, n) == IF 0 <= n /\ n <= 100 THEN n ELSE old

\* save_settings(): the three conversions and assignments in order inside
\* one try; a ValueError leaves the try at the conversion that raised it and
\* is passed over; settings_window.destroy() runs when none was raised
SaveSettingsResult(interval, th, i, c, r) ==
    IF ~IsInt(i)
    THEN [interval |-> interval, th |-> th, closed |-> FALSE]
    ELSE LET i1 == NewInterval(interval, IntOf[i])
         IN  IF ~IsInt(c)
             THEN [interval |-> i1, th |-> th, closed |-> FALSE]
             ELSE LET t1 == [th EXCEPT !.cpu = NewThreshold(@, IntOf[c])]
                  IN  IF ~IsInt(r)
                      THEN [interval |-> i1, th |-> t1, closed |-> FALSE]
                      ELSE [interval |-> i1,
                            th |-> [t1 EXCEPT
                                      !.ram = NewThreshold(@, IntOf[r])],
                            closed |-> TRUE]

\* the "Guardar" button with the three entries holding i, c and r
SaveSettings(i, c, r) ==
    LET res == SaveSettingsResult(update_interval, alert_thresholds, i, c, r)
    IN  /\ update_interval' = res.interval
        /\ alert_thresholds' = res.th
        /\ dash' = [op |-> "save_settings", interval |-> i, cpu |-> c,
                    ram |-> r, closed |-> res.closed]
        /\ last' = Step("save_settings")
        /\ UNCHANGED <<running, attrs, thread, Monitor, Registry,
                       active_alerts, pending, procs, top, reader,
                   Clients>>

NextSettings ==
    \E i \in IntervalTexts, c \in ThresholdTexts, r \in ThresholdTexts :
        SaveSettings(i, c, r)

SpecSettings == Init /\ [][NextSettings]_vars

\* ---------------------------------------------------- the process table
\* the value process_iter() puts in proc.info for an attribute the process
\* denies access to (ad_value=None); percentages themselves are never negative
NoneVal == 0 - 1

CpuVals == (0..MaxVal) \cup {NoneVal}

MemVals == {0, 1, NoneVal}

SortFields == {"cpu", "memory"}

\* the dictionaries the loop over process_iter() appends, in enumeration
\* order; the pid is the position in the enumeration
Enumerations ==
    UNION {{[i \in 1..n |-> [pid |-> i, cpu_percent |-> f[i][1],
                             memory_percent |-> f[i][2]]] :
               f \in [1..n -> CpuVals \X MemVals]} : n \in 0..MaxProcs}

\* key=lambda x: x['memory_percent'] if sort_by == 'memory', else
\* x['cpu_percent']
SortKey(p, sort_by) ==
    IF sort_by = "memory" THEN p.memory_percent ELSE p.cpu_percent

\* where list.sort(reverse=True) leaves x among the already sorted q: behind
\* every element whose key is not smaller, so equal keys keep their order
InsertDesc(q, x, sort_by) ==
    LET n == Cardinality({i \in 1..Len(q) :
                             SortKey(q[i], sort_by) >= SortKey(x, sort_by)})
    IN  SubSeq(q, 1, n) \o <<x>> \o SubSeq(q, n + 1, Len(q))

RECURSIVE SortDesc(_, _)
\* processes.sort(key=..., reverse=True)
SortDesc(ps, sort_by) ==
    IF ps = <<>> THEN <<>>
    ELSE InsertDesc(SortDesc(SubSeq(ps, 1, Len(ps) - 1), sort_by),
                    ps[Len(ps)], sort_by)

\* the sort compares keys once the list has two elements; a comparison with
\* None is a TypeError, which nothing in get_processes catches
SortRaises(ps, sort_by) ==
    /\ Len(ps) >= 2
    /\ \E i \in 1..Len(ps) : SortKey(ps[i], sort_by) = NoneVal

\* processes[:limit], limit >= 0
FirstN(q, limit) == SubSeq(q, 1, Min(limit, Len(q)))

\* get_processes(sort_by, limit) on the enumeration ps
GetProcessesResult(ps, sort_by, limit) ==
    IF SortRaises(ps, sort_by)
    THEN [op |-> "get_processes", sort_by |-> sort_by, limit |-> limit,
          raised |-> TRUE, value |-> <<>>]
    ELSE [op |-> "get_processes", sort_by |-> sort_by, limit |-> limit,
          raised |-> FALSE, value |-> FirstN(SortDesc(ps, sort_by), limit)]

GetProcesses(sort_by, limit) ==
    /\ top' = GetProcessesResult(procs, sort_by, limit)
    /\ last' = Step("get_processes")
    /\ UNCHANGED <<running, attrs, thread, Monitor, Registry, Board,
                   update_interval, procs, reader,
                   Clients>>

\* get_process_list(limit): the same on the CPU field
GetProcessList(limit) ==
    /\ top' = [GetProcessesResult(procs, "cpu", limit) EXCEPT
                  !.op = "get_process_list"]
    /\ last' = Step("get_process_list")
    /\ UNCHANGED <<running, attrs, thread, Monitor, Registry, Board,
                   update_interval, procs, reader,
                   Clients>>

\* a fresh monitor on a host with any enumeration of processes
InitProc ==
    /\ running = FALSE
    /\ attrs = {}
    /\ cpu_history = <<>>
    /\ ram_history = <<>>
    /\ disk_history = <<>>
    /\ net_recv_history = <<>>
    /\ net_sent_history = <<>>
    /\ fps_history = <<>>
    /\ prev_net_io = NoIO
    /\ prev_net_time = 0
    /\ frame_count = 0
    /\ last_frame_time = 0
    /\ thread = [t \in Tids |-> NoThread]
    /\ last = Step("init")
    /\ sampled = [s \in Streams |-> <<>>]
    /\ cycles = 0
    /\ begun = 0
    /\ update_callbacks = <<>>
    /\ it = 0
    /\ calls = <<>>
    /\ stable = {}
    /\ active_alerts = <<>>
    /\ alert_thresholds = Thresholds
    /\ pending = 0
    /\ dash = NoDash
    /\ update_interval = UpdateInterval
    /\ procs \in Enumerations
    /\ top = NoTop
    /\ reader = NoReader
    /\ InitClients

NextProc ==
    \/ \E sort_by \in SortFields, limit \in 0..MaxLimit :
           GetProcesses(sort_by, limit)
    \/ \E limit \in 0..MaxLimit : GetProcessList(limit)

SpecProc == InitProc /\ [][NextProc]_vars

\* --------------------------------------- readers beside a sampling loop
\* the readings a loop takes while a reader looks on
ReadVals == 1..MaxVal

\* get_cpu_info(): 'history': self.cpu_history, the list object itself; got
\* is what the list held when the accessor returned, obj what the object
\* handed out holds now, alias whether it still is the monitor's list
GetCpuInfo ==
    /\ reader' = [op |-> "get_cpu_info", got |-> cpu_history,
                  obj |-> cpu_history, alias |-> TRUE]
    /\ last' = Step("get_cpu_info")
    /\ UNCHANGED <<running, attrs, thread, Monitor, Registry, Board,
                   update_interval, procs, top,
                   Clients>>

\* get_cpu_percent(): reads self.cpu_history and keeps no reference to it
GetCpuPercentCall ==
    /\ reader' = [op |-> "get_cpu_percent", got |-> cpu_history,
                  obj |-> cpu_history, alias |-> FALSE]
    /\ last' = Step("get_cpu_percent")
    /\ UNCHANGED <<running, attrs, thread, Monitor, Registry, Board,
                   update_interval, procs, top,
                   Clients>>

\* what a change of the monitor's list in place does to the list handed out
InPlace(h) ==
    IF reader.op # "init" /\ reader.alias
    THEN [reader EXCEPT !.obj = h] ELSE reader

\* what rebinding self.cpu_history to a new list does: the list handed out
\* is the monitor's no longer
Rebound ==
    IF reader.op # "init" /\ reader.alias
    THEN [reader EXCEPT !.alias = FALSE] ELSE reader

\* the first statements of update_data and of _update_metrics:
\* self.cpu_history.append(psutil.cpu_percent(interval=None))
CpuAppendStep(t) ==
    /\ thread[t].pc = "update"
    /\ \E v \in ReadVals :
          /\ cpu_history' = Append(cpu_history, Reading(v).cpu)
          /\ sampled' = Sampled(Self, "cpu_history", Reading(v).cpu)
          /\ last' = [Step("cpu_append") EXCEPT !.v = v]
    /\ reader' = InPlace(cpu_history')
    /\ thread' = [thread EXCEPT ![t].pc = "trim"]
    /\ begun' = Min(begun + 1, 2)
    /\ UNCHANGED <<running, attrs, ram_history, disk_history,
                   net_recv_history, net_sent_history, fps_history,
                   prev_net_io, prev_net_time, frame_count, last_frame_time,
                   cycles, Registry, Board, update_interval, procs, top,
                   Clients>>

\* if len(self.cpu_history) > self.history_size: in update_data
\* self.cpu_history = self.cpu_history[-self.history_size:], a new list; in
\* _update_metrics self.cpu_history.pop(0), the same list
CpuTrimStep(t) ==
    /\ thread[t].pc = "trim"
    /\ IF Len(cpu_history) > HistorySize
       THEN IF thread[t].kind = "sm"
            THEN /\ cpu_history' = LastN(cpu_history, HistorySize)
                 /\ reader' = Rebound
            ELSE /\ cpu_history' = Tail(cpu_history)
                 /\ reader' = InPlace(cpu_history')
       ELSE UNCHANGED <<cpu_history, reader>>
    /\ last' = [Step("cpu_trim") EXCEPT !.v = last.v]
    /\ thread' = [thread EXCEPT ![t].pc = "rest"]
    /\ UNCHANGED <<running, attrs, ram_history, disk_history,
                   net_recv_history, net_sent_history, fps_history,
                   prev_net_io, prev_net_time, frame_count, last_frame_time,
                   sampled, cycles, begun, Registry, Board,
                   update_interval, procs, top,
                   Clients>>

\* update_data() from the RAM section on
DataRest(m, rd) ==
    DataFps(DataNet(DataDisk(DataRam(m, rd, "none"), rd, "none"),
                    rd, "none"), rd)

\* _update_metrics() from the RAM section on
MetricsRest(m, rd, t) ==
    LET m2 == MetricsRam(m, rd, "none")
        m3 == MetricsDisk(m2, rd, "none")
        m4 == MetricsNet(m3, rd, "none", t)
    IN  IF m4.raised THEN m4 ELSE FrameRateBlock(m4, t)

\* the rest of the cycle, with the reading of its first statement
RestOfCycle(t) ==
    /\ thread[t].pc = "rest"
    /\ \E t1 \in Times :
          LET m == IF thread[t].kind = "sm"
                   THEN DataRest(Self, Reading(last.v))
                   ELSE MetricsRest(Self, Reading(last.v), t1)
          IN  /\ Install(m)
              /\ cycles' = Completed(m)
              /\ last' = [Step("rest") EXCEPT !.raised = m.raised]
              /\ thread' = [thread EXCEPT ![t].pc =
                               IF m.raised THEN "check" ELSE "notify"]
    /\ UNCHANGED <<running, begun, reader, Registry, Board,
                   update_interval, procs, top,
                   Clients>>

\* a monitor whose loop has been started, by start_monitoring() or by start()
InitRead ==
    /\ running = TRUE
    /\ attrs = {}
    /\ cpu_history = <<>>
    /\ ram_history = <<>>
    /\ disk_history = <<>>
    /\ net_recv_history = <<>>
    /\ net_sent_history = <<>>
    /\ fps_history = <<>>
    /\ prev_net_io = NoIO
    /\ prev_net_time = 0
    /\ frame_count = 0
    /\ last_frame_time = 0
    /\ \E k \in {"sm", "ml"} :
          thread = [t \in Tids |->
                       IF t = 1 THEN [kind |-> k, pc |-> "check"]
                       ELSE NoThread]
    /\ last = Step("start")
    /\ sampled = [s \in Streams |-> <<>>]
    /\ cycles = 0
    /\ begun = 0
    /\ update_callbacks = <<>>
    /\ it = 0
    /\ calls = <<>>
    /\ stable = {}
    /\ active_alerts = <<>>
    /\ alert_thresholds = Thresholds
    /\ pending = 0
    /\ dash = NoDash
    /\ InitTools

NextRead ==
    \/ GetCpuInfo
    \/ GetCpuPercentCall
    \/ \E t \in Tids : LoopCheck(t)
    \/ \E t \in Tids : CpuAppendStep(t)
    \/ \E t \in Tids : CpuTrimStep(t)
    \/ \E t \in Tids : RestOfCycle(t)
    \/ \E t \in Tids : LoopNotify(t)
    \/ \E t \in Tids : LoopSleep(t)

SpecRead == InitRead /\ [][NextRead]_vars

\* ------------------------------------------------- stop(), step by step
\* a thread that start() put on _monitor_loop has not exited
MonitorThreadAlive == \E t \in Tids : thread[t].kind = "ml" /\ Alive(t)

\* stop() up to the join: self.running = False; without the attribute
\* monitor_thread (no start() before, the loop was started through
\* start_monitoring or never) the call returns here
StopCall ==
    /\ stopper.pc = "idle"
    /\ running' = FALSE
    /\ stopper' = IF "monitor_thread" \in attrs
                  THEN [pc |-> "join", how |-> "none"]
                  ELSE [pc |-> "idle", how |-> "no_thread"]
    /\ last' = Step("stop")
    /\ UNCHANGED <<attrs, thread, Monitor, Registry, Board,
                   update_interval, procs, top, reader, display, refresh>>

\* the mutant of JoinReturn: self.monitor_thread.join(), no timeout
JoinForever ==
    /\ stopper.pc = "join"
    /\ ~MonitorThreadAlive
    /\ stopper' = [pc |-> "idle", how |-> "joined"]
    /\ last' = Step("stop_return")
    /\ UNCHANGED <<running, attrs, thread, Monitor, Registry, Board,
                   update_interval, procs, top, reader, display, refresh>>

\* self.monitor_thread.join(timeout=1.0) returns: the thread has exited, or
\* the second has passed with the thread still alive
JoinReturn ==
    /\ stopper.pc = "join"
    /\ stopper' = [pc |-> "idle",
                   how |-> IF MonitorThreadAlive THEN "timeout" ELSE "joined"]
    /\ last' = Step("stop_return")
    /\ UNCHANGED <<running, attrs, thread, Monitor, Registry, Board,
                   update_interval, procs, top, reader, display, refresh>>

\* start(), start_monitoring() and the loops beside a caller of stop(); the
\* provider calls of the start_monitoring loop succeed
NextStop ==
    \/ Start
    \/ StartMonitoring
    \/ StopCall
    \/ JoinReturn
    \/ \E t \in Tids : LoopCheck(t)
    \/ \E t \in Tids : BeginPass(t)
    \/ \E t \in Tids : NotifyStep(t)
    \/ \E t \in Tids : UpdateMetricsStep(t)
    \/ \E t \in Tids : LoopSleep(t)

SpecStop == Init /\ [][NextStop]_vars

\* ------------------------------------- update_dashboard, step by step
\* the order in which update_dashboard updates its display histories
DisplayOrder == <<"cpu", "ram", "disk", "net", "fps">>

\* the statements of lines 358-374, numbered from 1: statement 2i - 1 is
\* self.<i-th>_history.append(...), statement 2i is self.<i-th>_history.pop(0)
Statements == 2 * Len(DisplayOrder)

StreamOf(k) == DisplayOrder[(k + 1) \div 2]

IsAppend(k) == k % 2 = 1

\* update_dashboard begins in context c: the UI timer fires a scheduled
\* invocation, or the loop of start_monitoring calls its callback; the
\* readings are taken and the labels set
EnterRefresh(c) ==
    /\ refresh[c] = 0
    /\ IF c = "timer"
       THEN /\ pending > 0
            /\ pending' = pending - 1
       ELSE /\ \E t \in Tids : thread[t].pc = "notify" /\ thread[t].kind = "sm"
            /\ update_callbacks = <<"update_dashboard">>
            /\ UNCHANGED pending
    /\ refresh' = [refresh EXCEPT ![c] = 1]
    /\ last' = Step("update_dashboard")
    /\ UNCHANGED <<running, attrs, thread, Monitor, Registry, active_alerts,
                   alert_thresholds, dash, update_interval, procs, top,
                   reader, stopper, display>>

\* one statement of lines 358-374 in context c
RefreshStep(c) ==
    /\ refresh[c] \in 1..Statements
    /\ display' = [display EXCEPT ![StreamOf(refresh[c])] =
                       IF IsAppend(refresh[c]) THEN @ + 1 ELSE @ - 1]
    /\ refresh' = [refresh EXCEPT ![c] = @ + 1]
    /\ last' = Step("history")
    /\ UNCHANGED <<running, attrs, thread, Monitor, Registry, Board,
                   update_interval, procs, top, reader, stopper>>

\* update_charts() in context c plots the display histories as they are;
\* update_process_table() then raises, and the except branch schedules the
\* next invocation; the loop goes on to its sleep after its callback
UpdateCharts(c) ==
    /\ refresh[c] = Statements + 1
    /\ pending < MaxPending
    /\ dash' = [op |-> "update_charts", ctx |-> c, lens |-> display]
    /\ pending' = pending + 1
    /\ refresh' = [refresh EXCEPT ![c] = 0]
    /\ thread' = IF c = "callback"
                 THEN [t \in Tids |->
                          IF thread[t].pc = "notify"
                          THEN [thread[t] EXCEPT !.pc = "sleep"]
                          ELSE thread[t]]
                 ELSE thread
    /\ last' = Step("update_charts")
    /\ UNCHANGED <<running, attrs, Monitor, Registry, active_alerts,
                   alert_thresholds, update_interval, procs, top, reader,
                   stopper, display>>

NextCharts ==
    \/ DashStartMonitoring
    \/ \E t \in Tids : LoopCheck(t)
    \/ \E t \in Tids : BeginPass(t)
    \/ \E t \in Tids : LoopSleep(t)
    \/ \E c \in Contexts : EnterRefresh(c)
    \/ \E c \in Contexts : RefreshStep(c)
    \/ \E c \in Contexts : UpdateCharts(c)

SpecCharts == Init /\ [][NextCharts]_vars

\* ================================================================ claims
IsCycle == last.op \in {"update_data", "_update_metrics"}

\* a loop context that is inside an iteration of its loop
Sampling(t) == thread[t].pc \in {"update", "notify", "sleep"}

\* C1: once more than history_size cycles have completed, every stream's
\* history has exactly history_size entries, the last history_size samples of
\* the stream in sampling order.
C1_LastSamplesKept ==
    cycles > HistorySize =>
        \A s \in Streams :
            /\ Len(HistoryOf(s)) = HistorySize
            /\ HistoryOf(s) = sampled[s]

\* C2: whatever cycles have run, a failing disk provider included, no history
\* buffer is longer than history_size.
C2_HistoryBounded == \A s \in Streams : Len(HistoryOf(s)) <= HistorySize

\* C3: at most one context is inside the sampling loop, under every
\* interleaving of start(), start_monitoring() and stop().
C3_SingleSampler == Cardinality({t \in Tids : Sampling(t)}) <= 1

\* C4: start() on a running monitor changes nothing (no second loop, no state),
\* and after any start() the monitor is running, so two calls in a row do
\* what one does.
C4_StartIdempotent ==
    [][last'.op = "start" =>
          /\ running'
          /\ running => UNCHANGED <<running, attrs, thread, Monitor>>]_vars

\* C4 witness: start() was called on a monitor that start_monitoring() had
\* set running, and no thread of start() exists.
C4_StartNoOpReached ==
    /\ last.op = "start"
    /\ running
    /\ "monitor_thread" \notin attrs
    /\ \E t \in Tids : Alive(t) /\ thread[t].kind = "sm"

\* C5: stop() can always be called, returns with the running flag false, and
\* on a monitor that is not running (a second stop(), a stop() before any
\* start()) it changes nothing.
C5_StopIdempotent ==
    [][last'.op = "stop" =>
          /\ ~running'
          /\ UNCHANGED <<attrs, thread, Monitor>>
          /\ ~running => UNCHANGED running]_vars

\* C5 witness: stop() was called on a monitor on which nothing was ever
\* started.
C5_StopBeforeStartReached ==
    /\ last.op = "stop"
    /\ ~running
    /\ attrs = {}
    /\ begun = 0
    /\ \A t \in Tids : thread[t] = NoThread

\* C6: a loop that finds the flag false at its while test ends there; a cycle
\* is begun only from a while test that found the flag true; and once the
\* flag is false, either something starts the monitor again or every loop
\* ends.
C6_CooperativeStop ==
    /\ [][\A t \in Tids :
            /\ (thread[t].pc = "check" /\ ~running /\ thread'[t] # thread[t])
                   => thread'[t].pc \notin {"check", "update", "notify", "sleep"}
            /\ (thread'[t].pc = "update" /\ thread[t].pc # "update")
                   => (thread[t].pc = "check" /\ running)]_vars
    /\ (~running) ~> (running \/ LiveLoops = {})

\* C6 witness: cycles have run, the flag is false and every loop has ended
\* at its while test.
C6_LoopsEndedReached ==
    /\ ~running
    /\ begun >= 1
    /\ last.op = "step"
    /\ \A t \in Tids : thread[t] = NoThread

\* C7: after the first sampling cycle the three rate histories are empty and
\* the network snapshot is stored.
C7_FirstCycleSuppressed ==
    (begun = 1 /\ IsCycle) =>
        /\ \A s \in RateStreams : HistoryOf(s) = <<>>
        /\ SnapshotAttrs \subseteq attrs

\* C8: a cycle that reads a time not later than the snapshot's leaves both
\* network histories as they were.
C8_NoAppendUnlessClockAdvanced ==
    [][(last'.op = "_update_metrics" /\ last'.clock \in {"same", "back"}) =>
          UNCHANGED <<net_recv_history, net_sent_history>>]_vars

\* C8 witness: a cycle found the clock where the snapshot had it, or behind,
\* on a monitor that had appended rates before.
C8_ClockStalledReached ==
    /\ last.op = "_update_metrics"
    /\ last.clock \in {"same", "back"}
    /\ prev_net_time = last.t
    /\ net_recv_history # <<>>

NoNegativeRate(h) == \A i \in 1..Len(h) : h[i].num >= 0

C10_RateIsDifferenceQuotient ==
    [][(IsCycle' /\ ~last'.raised /\ begun >= 1) =>
          /\ net_recv_history' # <<>> /\ net_sent_history' # <<>>
          /\ Last(net_recv_history').num = 0
          /\ Last(net_sent_history').num = 0]_vars

\* C11: every completed cycle counts a frame, so the frame counter exists
\* after it; a cycle that adds an entry to the frame-rate history resets the
\* counter to 0, and a cycle that adds none leaves the counter one higher.
C11_FrameRateBatched ==
    [][(IsCycle' /\ ~last'.raised) =>
          /\ "frame_count" \in attrs'
          /\ IF Len(fps_history') > Len(fps_history)
             THEN frame_count' = 0
             ELSE frame_count' = frame_count + 1]_vars

\* C12: a cycle in which one provider category fails does not raise.
C12_FailureContained == (IsCycle /\ last.fail # "none") => ~last.raised

\* C13: no loop context is ever ended by an exception of a cycle.
C13_LoopSurvivesCycleFailure == \A t \in Tids : thread[t].pc # "crashed"

\* C14: the monitor never reports running while no loop is alive.
C14_RunningHasLoop == running => LiveLoops # {}

NoDuplicates(q) == \A i, j \in 1..Len(q) : q[i] = q[j] => i = j

\* C15: the registry never holds an object twice; a register or
\* set_update_callback of an object it holds, and an unregister of one it does
\* not hold, leave it as it was, contents and order.
C15_RegistryIsOrderedSet ==
    /\ [](NoDuplicates(update_callbacks))
    /\ [][(\/ /\ last'.op \in {"register", "set_callback"}
              /\ last'.cb \in Range(update_callbacks)
           \/ /\ last'.op = "unregister"
              /\ last'.cb \notin Range(update_callbacks))
            => UNCHANGED update_callbacks]_vars

\* C15 witness: an observer was registered a second time, after another one,
\* and the registry holds both once.
C15_DuplicateRegisterReached ==
    /\ last.op = "register"
    /\ last.had
    /\ Len(update_callbacks) >= 2
    /\ update_callbacks[1] = last.cb

InStable(c) == c \in stable

\* C16: when the notification pass of a cycle ends, the observers that were
\* registered throughout the pass have each been invoked once, in
\* registration order.
C16_EachObserverOncePerCycle ==
    last.op = "pass_end" =>
        SelectSeq(calls, InStable) = SelectSeq(update_callbacks, InStable)

\* C17: an invocation that raises leaves the loop context as it was and moves
\* the pass on by one position; the step of the pass that follows it invokes
\* the observer at that position when the registry has one.
C17_ObserverIsolation ==
    /\ [][(last'.op = "callback" /\ last'.raised) =>
             /\ it' = it + 1
             /\ UNCHANGED <<thread, running>>]_vars
    /\ [][(/\ last.op = "callback" /\ last.raised
           /\ last'.op \in {"callback", "pass_end"}
           /\ it < Len(update_callbacks)) =>
             /\ last'.op = "callback"
             /\ last'.cb = update_callbacks[it + 1]]_vars

\* C17 witness: a pass has ended in which the observer that raises was
\* invoked first and the observer registered after it was invoked next, and
\* the loop is alive.
C17_LaterObserverCalledReached ==
    /\ last.op = "pass_end"
    /\ update_callbacks = <<"b", "a">>
    /\ calls = <<"b", "a">>
    /\ \E t \in Tids : thread[t].pc = "sleep"

\* C18: every active alert carries a value strictly above the threshold of its
\* metric: check_alerts creates none for a value at or below it.
C18_AlertOnlyAboveThreshold ==
    \A i \in 1..Len(active_alerts) :
        active_alerts[i].value > alert_thresholds[active_alerts[i].metric]

\* C18 witness: check_alerts was called with a value equal to its threshold
\* and no value above, and no alert exists.
C18_TieCreatesNoneReached ==
    /\ dash.op = "check_alerts"
    /\ dash.tie
    /\ active_alerts = <<>>

CpuEntries(alerts) == {i \in 1..Len(alerts) : alerts[i].metric = "cpu"}

\* C19: an update_dashboard cycle whose CPU reading is above the CPU threshold
\* adds exactly one CPU entry to the active alerts; a cycle whose reading is
\* not above it adds none.
C19_OneCpuAlertPerExceedingCycle ==
    [][last'.op = "update_dashboard" =>
          Cardinality(CpuEntries(active_alerts')) =
              Cardinality(CpuEntries(active_alerts))
                + (IF Exceeds(GetCpuPercent, alert_thresholds.cpu)
                   THEN 1 ELSE 0)]_vars

\* C20: after an update_dashboard cycle the message of every metric above its
\* threshold is active, and the active alerts never hold a message twice.
C20_AlertAddedOnceWhenExceeded ==
    /\ [][last'.op = "update_dashboard" =>
             /\ Exceeds(GetCpuPercent, alert_thresholds.cpu) =>
                   AlertMsg(dash'.time, "cpu", GetCpuPercent)
                       \in Range(active_alerts')
             /\ Exceeds(GetRamPercent, alert_thresholds.ram) =>
                   AlertMsg(dash'.time, "ram", GetRamPercent)
                       \in Range(active_alerts')
             /\ Exceeds(GetDiskPercent, alert_thresholds.disk) =>
                   AlertMsg(dash'.time, "disk", GetDiskPercent)
                       \in Range(active_alerts')]_vars
    /\ [](NoDuplicates(active_alerts))

\* C21: a call of clear_alerts() leaves the active-alert list empty and leaves
\* the alert thresholds and the six history buffers of the monitor as they
\* were.
C21_ClearOnlyEmptiesAlerts ==
    [][last'.op = "clear_alerts" =>
          /\ active_alerts' = <<>>
          /\ UNCHANGED <<alert_thresholds, cpu_history, ram_history,
                         disk_history, net_recv_history, net_sent_history,
                         fps_history>>]_vars

\* clear_alerts() has run on a list that held alerts
C21_ClearedAlertsReached ==
    /\ last.op = "clear_alerts"
    /\ dash.op = "clear_alerts"
    /\ dash.had > 0
    /\ active_alerts = <<>>

\* C22: a settings update that supplies a non-positive interval or a
\* threshold outside 0..100 keeps the prior value of that setting and tells
\* the caller that validation failed: the window does not close as it does
\* after a save that was accepted.
C22_InvalidSettingRejectedAndReported ==
    [][last'.op = "save_settings" =>
          LET d == dash'
              badInterval == IsInt(d.interval) /\ IntOf[d.interval] <= 0
              badCpu == /\ IsInt(d.interval) /\ IsInt(d.cpu)
                        /\ (IntOf[d.cpu] < 0 \/ IntOf[d.cpu] > 100)
              badRam == /\ IsInt(d.interval) /\ IsInt(d.cpu) /\ IsInt(d.ram)
                        /\ (IntOf[d.ram] < 0 \/ IntOf[d.ram] > 100)
          IN  /\ badInterval => update_interval' = update_interval
              /\ badCpu => alert_thresholds'.cpu = alert_thresholds.cpu
              /\ badRam => alert_thresholds'.ram = alert_thresholds.ram
              /\ (badInterval \/ badCpu \/ badRam) => ~d.closed]_vars

\* p comes before q in the order the process table promises: the larger
\* value of the chosen field first, equal values in enumeration order
RanksBefore(p, q, sort_by) ==
    \/ SortKey(p, sort_by) > SortKey(q, sort_by)
    \/ /\ SortKey(p, sort_by) = SortKey(q, sort_by)
       /\ p.pid < q.pid

\* C23: a call for the top processes returns at most limit of the enumerated
\* records, the highest-ranking ones, in descending order of the chosen
\* field with ties in enumeration order.
C23_TopProcessesSorted ==
    top.op \in {"get_processes", "get_process_list"} =>
        /\ ~top.raised
        /\ Len(top.value) = Min(top.limit, Len(procs))
        /\ \A i \in 1..Len(top.value) : top.value[i] \in Range(procs)
        /\ \A i, j \in 1..Len(top.value) :
               i < j => RanksBefore(top.value[i], top.value[j], top.sort_by)
        /\ \A p \in Range(procs) \ Range(top.value) :
               \A i \in 1..Len(top.value) :
                   RanksBefore(top.value[i], p, top.sort_by)

C25_ReaderNeverSeesOverfullHistory ==
    reader.op \in {"get_cpu_info", "get_cpu_percent"} =>
        Len(reader.got) <= HistorySize

\* the value the cycles appended last to stream s, 0 when they appended none
Latest(s) ==
    IF sampled[s] = <<>> THEN 0 ELSE sampled[s][Len(sampled[s])]

\* C26: at every point of every sequence of sampling cycles, each
\* current-value accessor returns the value appended last to its stream, and
\* 0 while the stream's history is empty.
C26_AccessorReturnsLatest ==
    /\ GetCpuPercent = Latest("cpu_history")
    /\ GetRamPercent = Latest("ram_history")
    /\ GetDiskPercent = Latest("disk_history")
    /\ GetFps = Latest("fps_history")
    /\ GetNetworkUsage =
           <<Latest("net_recv_history"), Latest("net_sent_history")>>
    /\ cpu_history = <<>> => GetCpuPercent = 0
    /\ ram_history = <<>> => GetRamPercent = 0
    /\ disk_history = <<>> => GetDiskPercent = 0
    /\ fps_history = <<>> => GetFps = 0
    /\ (net_recv_history = <<>> /\ net_sent_history = <<>>) =>
           GetNetworkUsage = <<0, 0>>

\* every stream has had two different samples appended and the accessors
\* return the later ones
C26_LaterOfTwoSamplesReached ==
    /\ \A s \in Streams :
           /\ Len(HistoryOf(s)) = 2
           /\ HistoryOf(s)[1] # HistoryOf(s)[2]
    /\ GetCpuPercent = cpu_history[2]
    /\ GetFps = fps_history[2]
    /\ GetNetworkUsage = <<net_recv_history[2], net_sent_history[2]>>

\* how often the object c occurs among the entries of q after position n
Occurrences(q, n, c) ==
    Cardinality({i \in (n + 1)..Len(q) : q[i] = c})

\* C27: registry changes are synchronized against a notification pass: while
\* a pass is in progress, every observer registered without interruption
\* since it began has either been invoked once or still lies ahead of the
\* pass, whatever register and unregister calls have run meanwhile.
C27_PassSynchronizedWithRegistry ==
    (\E t \in Tids : thread[t].pc = "notify") =>
        \A c \in stable :
            Occurrences(calls, 0, c) + Occurrences(update_callbacks, it, c) = 1

\* a loop started by start() is alive on a monitor that has begun no cycle
\* since its construction
StartLoopAlive ==
    /\ begun = 0
    /\ \E t \in Tids : thread[t].kind = "ml" /\ Alive(t)

\* a loop started by start() has completed a cycle and is at _notify_update()
StartLoopNotifies ==
    \E t \in Tids : thread[t].kind = "ml" /\ thread[t].pc = "notify"

\* the latest cycle met a provider call that failed
ProviderFailed == IsCycle /\ last.fail # "none"

\* C28: once start() has put its loop to work on a freshly constructed
\* monitor, the loop eventually completes a sampling cycle and goes on to
\* notify the observers, unless the monitor is stopped or a provider call
\* fails.
C28_StartLeadsToNotification ==
    StartLoopAlive ~> (StartLoopNotifies \/ ~running \/ ProviderFailed)

\* C29: a loop of _monitor_loop that has run a sampling cycle, whether the
\* cycle succeeded or raised, goes on towards the wait of update_interval; it
\* never comes from a cycle straight back to its while test, so a wait lies
\* between the starts of any two consecutive cycles.
C29_WaitBetweenCycles ==
    [][\A t \in Tids :
          (/\ thread[t].kind = "ml"
           /\ thread[t].pc = "update"
           /\ thread'[t].pc # "update") =>
              thread'[t].pc \in {"notify", "sleep"}]_vars

\* q begins with the entries of p, in the order of p
IsPrefix(p, q) == Len(p) <= Len(q) /\ SubSeq(q, 1, Len(p)) = p

\* C30: every step that is not a clear_alerts() keeps the entries of the
\* active-alert list where they are: the list after the step begins with the
\* list before it.
C30_AlertsOnlyGrowBetweenClears ==
    [][last'.op # "clear_alerts" => IsPrefix(active_alerts, active_alerts')]_vars

\* alerts of two calls of check_alerts, at different seconds, stand in the
\* list in the order they were raised
C30_AlertsOfTwoCallsReached ==
    /\ last.op = "check_alerts"
    /\ Len(active_alerts) = MaxAlerts
    /\ active_alerts[1].time # active_alerts[MaxAlerts].time
    /\ dash.time = active_alerts[MaxAlerts].time

\* the text of the interval entry is one the save refuses: no integer, or an
\* integer below the 100 the save asks for
IntervalRefused(text) == ~IsInt(text) \/ IntOf[text] < 100

\* the text of a threshold entry is one the save refuses: no integer, or an
\* integer outside 0..100
ThresholdRefused(text) ==
    ~IsInt(text) \/ IntOf[text] < 0 \/ IntOf[text] > 100

\* C34: a save in which any of the three fields fails to parse or to validate
\* changes no setting: the interval and the thresholds are as before it.
C34_SaveIsAllOrNothing ==
    [][(/\ last'.op = "save_settings"
        /\ \/ IntervalRefused(dash'.interval)
           \/ ThresholdRefused(dash'.cpu)
           \/ ThresholdRefused(dash'.ram)) =>
          UNCHANGED <<update_interval, alert_thresholds>>]_vars

\* C31: after every _update_metrics cycle whose provider calls succeed, a
\* cycle that skipped the rates because the clock had not advanced included,
\* the monitor holds a network snapshot and it is the counters and the time
\* that cycle read.
C31_SnapshotIsLatestReading ==
    [][(last'.op = "_update_metrics" /\ last'.fail = "none") =>
          /\ SnapshotAttrs \subseteq attrs'
          /\ prev_net_io' = NetIO(Reading(last'.v))
          /\ prev_net_time' = last'.t]_vars

\* C32: a stop() that found no monitor_thread returns at once, and a stop()
\* that waits in its join can return in every state, whatever the loops do:
\* with the joined thread alive as with it exited.
C32_StopAlwaysReturns ==
    /\ [][(last'.op = "stop" /\ "monitor_thread" \notin attrs) =>
             stopper'.pc = "idle"]_vars
    /\ [](stopper.pc = "join" => ENABLED JoinReturn)

\* stop() has returned from its join with the loop of start() still alive,
\* inside a cycle
C32_ReturnedWithLoopAliveReached ==
    /\ last.op = "stop_return"
    /\ stopper = [pc |-> "idle", how |-> "timeout"]
    /\ \E t \in Tids : thread[t].kind = "ml" /\ thread[t].pc = "update"

\* C33: at most one invocation of update_dashboard is scheduled on the UI
\* timer at any time, however many sampling cycles and refreshes have run.
C33_OnePendingRefresh == pending <= 1

\* C35: whenever update_charts plots, in whichever context, each of the five
\* display histories has history_length entries.
C35_ChartsSeeEqualLengths ==
    dash.op = "update_charts" =>
        \A s \in DisplayStreams : dash.lens[s] = HistoryLength

\* C36: whatever cycles have run, through update_data or _update_metrics,
\* completed or ended by an exception, the two network histories have the
\* same length.
C36_NetHistoriesSameLength ==
    Len(net_recv_history) = Len(net_sent_history)

\* more cycles than the histories hold have completed, and both network
\* histories have been trimmed to history_size
C36_BothTrimmedReached ==
    /\ IsCycle
    /\ ~last.raised
    /\ cycles > HistorySize
    /\ Len(net_recv_history) = HistorySize
    /\ Len(net_sent_history) = HistorySize

====
